---- MODULE Spec2Model ----
(***************************************************************************)
(* A model of microjson (src/src/lib.rs): the span scanner                 *)
(* JSONValue::parse, the scalar readers and the composite navigators.      *)
(*                                                                         *)
(* A text (&str) is a sequence of one-character strings; every character   *)
(* of the model's alphabet is ASCII, so a byte offset of the source is an   *)
(* index of the sequence.  A Result is a record tagged "Ok" or "Err"; a     *)
(* Rust panic (a failed unwrap, a slice out of range) is the third         *)
(* outcome, tagged "Panic": it aborts the call and yields no result value.  *)
(***************************************************************************)
EXTENDS Integers, Sequences, FiniteSets, TLC

VARIABLES input, doc, pc, parsed, op, arg, result

vars == <<input, doc, pc, parsed, op, arg, result>>

\* ------------------------------------------------------------ characters

QUOTE == "\""

BACKSLASH == "\\"

\* char::is_whitespace restricted to the model's alphabet (str::trim_start).
IsWhitespace(chr) == chr \in {" ", "\t", "\n", "\r"}

NumberChars == {"0", "1", "2", "3", "4", "5", "6", "7", "8", "9", "-", "e", "E", "."}

NumberStart == {"0", "1", "2", "3", "4", "5", "6", "7", "8", "9", "-"}

\* char::is_digit(10)
IsDigit(chr) == chr \in {"0", "1", "2", "3", "4", "5", "6", "7", "8", "9"}

\* char::to_digit(10) on a digit
ToDigit(chr) ==
    CASE chr = "0" -> 0 [] chr = "1" -> 1 [] chr = "2" -> 2 [] chr = "3" -> 3
      [] chr = "4" -> 4 [] chr = "5" -> 5 [] chr = "6" -> 6 [] chr = "7" -> 7
      [] chr = "8" -> 8 [] chr = "9" -> 9

\* ------------------------------------------------------------ slices

\* &s[k..] for k <= s.len()
Drop(s, k) == SubSeq(s, k + 1, Len(s))

\* &s[..k] for k <= s.len()
Take(s, k) == SubSeq(s, 1, k)

\* s.starts_with(chr)
StartsWith(s, chr) == Len(s) > 0 /\ s[1] = chr

RECURSIVE Concat(_)
\* The concatenation of a sequence of texts.
Concat(parts) == IF parts = <<>> THEN <<>> ELSE Head(parts) \o Concat(Tail(parts))

\* ------------------------------------------------------------ results

Ok(v) == [tag |-> "Ok", value |-> v]

Err(msg) == [tag |-> "Err", msg |-> msg]

Panic == [tag |-> "Panic"]

\* The (value_type, value_len) pair one arm of parse's match evaluates to.
Measured(value_type, value_len) ==
    [tag |-> "Ok", value_type |-> value_type, value_len |-> value_len]

JSONValue(contents, value_type) == [contents |-> contents, value_type |-> value_type]

\* Ok((JSONValue, usize)) of parse
Parsed(contents, value_type, len) ==
    [tag |-> "Ok", value |-> JSONValue(contents, value_type), len |-> len]

\* ------------------------------------------------------------ trim_start

\* The number of leading whitespace characters of value.
LeadingWhitespace(value) ==
    IF \A i \in 1..Len(value) : IsWhitespace(value[i])
    THEN Len(value)
    ELSE (CHOOSE i \in 1..Len(value) :
             /\ ~IsWhitespace(value[i])
             /\ \A j \in 1..(i - 1) : IsWhitespace(value[j])) - 1

\* The count trim_start reports: value_len - value.len() after trimming.
TrimmedCount(value) == LeadingWhitespace(value)

trim_start(value) ==
    [rest |-> Drop(value, LeadingWhitespace(value)), count |-> TrimmedCount(value)]

\* ------------------------------------------------------------ parse

RECURSIVE StringScan(_, _, _, _)
\* The string arm's loop over contents[1..]: i is the next character's index.
StringScan(contents, i, value_len, is_escaped) ==
    IF i > Len(contents)
    THEN value_len
    ELSE IF contents[i] = QUOTE /\ ~is_escaped
    THEN value_len + 1
    ELSE IF contents[i] = BACKSLASH
    THEN StringScan(contents, i + 1, value_len + 1, ~is_escaped)
    ELSE StringScan(contents, i + 1, value_len + 1, FALSE)

RECURSIVE NumberScan(_, _, _)
\* The number arm's loop over contents.
NumberScan(contents, i, value_len) ==
    IF i > Len(contents)
    THEN Measured("Number", value_len)
    ELSE IF contents[i] \in NumberChars
    THEN IF contents[i] = "-" /\ value_len > 0
         THEN Err("Unexpected '-' while parsing number")
         ELSE NumberScan(contents, i + 1, value_len + 1)
    ELSE Measured("Number", value_len)

\* The arms for 't', 'f', 'n': &contents[..n] panics when contents is shorter.
Literal(contents, word, value_type) ==
    IF Len(contents) < Len(word)
    THEN Panic
    ELSE IF Take(contents, Len(word)) # word
    THEN Err("Unrecognised token")
    ELSE Measured(value_type, Len(word))

\* A faulty advance: the whitespace after the item is left out of the length.
Advance_NoWhitespace(value_len, item_len, whitespace) == value_len + item_len

\* value_len += item_len + whitespace, after a key, a member's value or an element
Advance(value_len, item_len, whitespace) == value_len + item_len + whitespace

RECURSIVE parse(_), ObjectLoop(_, _), ArrayLoop(_, _)

\* The while loop of the object arm; value_len is the length measured so far.
ObjectLoop(contents, value_len) ==
    IF contents = <<>>
    THEN Measured("Object", value_len)
    ELSE IF StartsWith(trim_start(contents).rest, "}")
    THEN Measured("Object", value_len + trim_start(contents).count + 1)
    ELSE LET key == parse(contents) IN
      IF key.tag # "Ok" THEN key
      ELSE IF key.value.value_type # "String"
      THEN Err("Cannot parse object key")
      ELSE LET t1 == trim_start(Drop(contents, key.len))
               len1 == Advance(value_len, key.len, t1.count)
           IN
        IF t1.rest = <<>> THEN Err("End of stream while parsing object")
        ELSE IF ~StartsWith(t1.rest, ":")
        THEN Err("Illegal token while parsing object")
        ELSE LET contents2 == Drop(t1.rest, 1)
                 item == parse(contents2)
             IN
          IF item.tag # "Ok" THEN item
          ELSE LET t2 == trim_start(Drop(contents2, item.len))
                   len2 == Advance(len1 + 1, item.len, t2.count)
               IN
            IF t2.rest = <<>> THEN Err("End of stream while parsing object")
            ELSE IF StartsWith(t2.rest, ",")
            THEN ObjectLoop(Drop(t2.rest, 1), len2 + 1)
            ELSE IF ~StartsWith(t2.rest, "}")
            THEN Err("Illegal token while parsing object")
            ELSE ObjectLoop(t2.rest, len2)

\* The while loop of the array arm.
ArrayLoop(contents, value_len) ==
    IF contents = <<>>
    THEN Measured("Array", value_len)
    ELSE IF StartsWith(trim_start(contents).rest, "]")
    THEN Measured("Array", value_len + trim_start(contents).count + 1)
    ELSE LET item == parse(contents) IN
      IF item.tag # "Ok" THEN item
      ELSE LET t == trim_start(Drop(contents, item.len))
               len1 == Advance(value_len, item.len, t.count)
           IN
        IF t.rest = <<>> THEN Err("End of stream while parsing array")
        ELSE IF StartsWith(t.rest, ",")
        THEN ArrayLoop(Drop(t.rest, 1), len1 + 1)
        ELSE IF ~StartsWith(t.rest, "]")
        THEN Err("Illegal token while parsing array")
        ELSE ArrayLoop(t.rest, len1)

\* JSONValue::parse
parse(text) ==
    LET t == trim_start(text)
        contents == t.rest
        m == IF contents = <<>> THEN Err("Could not interpret start of token")
             ELSE IF contents[1] = "{" THEN ObjectLoop(Drop(contents, 1), 1)
             ELSE IF contents[1] = "[" THEN ArrayLoop(Drop(contents, 1), 1)
             ELSE IF contents[1] = QUOTE
             THEN Measured("String", StringScan(contents, 2, 1, FALSE))
             ELSE IF contents[1] \in NumberStart THEN NumberScan(contents, 1, 0)
             ELSE IF contents[1] = "t"
             THEN Literal(contents, <<"t", "r", "u", "e">>, "Bool")
             ELSE IF contents[1] = "f"
             THEN Literal(contents, <<"f", "a", "l", "s", "e">>, "Bool")
             ELSE IF contents[1] = "n"
             THEN Literal(contents, <<"n", "u", "l", "l">>, "Null")
             ELSE Err("Could not interpret start of token")
    IN IF m.tag # "Ok" THEN m
       ELSE IF m.value_len > Len(contents) THEN Panic
       ELSE Parsed(Take(contents, m.value_len), m.value_type, t.count + m.value_len)

\* ------------------------------------------------------------ scalar readers

RECURSIVE IntegerLoop(_, _, _)
\* The loop of read_integer: Err at the first character that is no digit.
\* (The model's numbers are far shorter than isize is wide: ans never overflows.)
IntegerLoop(contents, i, ans) ==
    IF i > Len(contents)
    THEN Ok(ans)
    ELSE IF ~IsDigit(contents[i])
    THEN Err("Cannot parse value as integer")
    ELSE IntegerLoop(contents, i + 1, ans * 10 + ToDigit(contents[i]))

\* JSONValue::read_integer
read_integer(self) ==
    IF self.value_type # "Number"
    THEN Err("Cannot parse value as integer")
    ELSE LET neg == StartsWith(self.contents, "-")
             r == IntegerLoop(self.contents, 1, 0)
         IN IF r.tag # "Ok" THEN r
            ELSE Ok(IF neg THEN -r.value ELSE r.value)

RECURSIVE FloatLoop(_, _, _, _, _)
\* The loop of read_float.  The f32 it accumulates is kept as the exact decimal
\* mant / 10^scale: a digit before the first '.' multiplies by ten and adds, a
\* digit after it adds digit * column, column = 10^-(scale + 1); every other
\* character is skipped.
FloatLoop(contents, i, mant, scale, integer) ==
    IF i > Len(contents)
    THEN [mant |-> mant, scale |-> scale]
    ELSE IF IsDigit(contents[i])
    THEN FloatLoop(contents, i + 1, mant * 10 + ToDigit(contents[i]),
                   IF integer THEN scale ELSE scale + 1, integer)
    ELSE FloatLoop(contents, i + 1, mant, scale, integer /\ contents[i] # ".")

\* JSONValue::read_float
read_float(self) ==
    IF self.value_type # "Number"
    THEN Err("Cannot parse value as float")
    ELSE LET neg == StartsWith(self.contents, "-")
             ans == FloatLoop(self.contents, 1, 0, 0, TRUE)
         IN Ok([mant |-> IF neg THEN -ans.mant ELSE ans.mant, scale |-> ans.scale])

\* A faulty read_string: the kind is not checked.
read_string_Unchecked(self) ==
    IF Len(self.contents) < 2
    THEN Panic
    ELSE Ok(SubSeq(self.contents, 2, Len(self.contents) - 1))

\* JSONValue::read_string: &contents[1..len - 1] panics when len < 2.
read_string(self) ==
    IF self.value_type # "String"
    THEN Err("Cannot parse value as string")
    ELSE IF Len(self.contents) < 2
    THEN Panic
    ELSE Ok(SubSeq(self.contents, 2, Len(self.contents) - 1))

\* ------------------------------------------------------------ navigators

\* parse(contents).unwrap(): a panic unless Ok
Unwrap(r) == IF r.tag = "Ok" THEN r ELSE Panic

\* A faulty skip: &contents[value_len..][1..], the whitespace is not trimmed.
SkipSeparator_NoTrim(contents, value_len) ==
    LET rest == Drop(contents, value_len)
    IN IF rest = <<>> THEN Panic ELSE Ok(Drop(rest, 1))

\* &contents[value_len..].trim_start()[1..]: skips the separator or the closer
\* that follows a value; the slice panics when nothing follows.
SkipSeparator(contents, value_len) ==
    LET rest == trim_start(Drop(contents, value_len)).rest
    IN IF rest = <<>> THEN Panic ELSE Ok(Drop(rest, 1))

\* Ok(JSONValue::parse(contents)?.0)
ParseValue(contents) ==
    LET r == parse(contents)
    IN IF r.tag = "Ok" THEN Ok(r.value) ELSE r

RECURSIVE NthLoop(_, _)
\* The for loop of get_nth_array_item with n skips left, then the final parse.
NthLoop(contents, n) ==
    IF n = 0
    THEN ParseValue(contents)
    ELSE LET r == Unwrap(parse(contents)) IN
      IF r.tag # "Ok" THEN Panic
      ELSE LET next == SkipSeparator(contents, r.len) IN
        IF next.tag # "Ok" THEN Panic
        ELSE NthLoop(next.value, n - 1)

\* JSONValue::get_nth_array_item
get_nth_array_item(self, n) ==
    IF self.value_type # "Array"
    THEN Err("Cannot parse value as an array")
    ELSE IF self.contents = <<>>
    THEN Panic
    ELSE NthLoop(Drop(self.contents, 1), n)

\* A faulty comparison: the key's span with its quotes against key.
KeyMatches_Quoted(this_key, key) == Concat(<<<<QUOTE>>, this_key, <<QUOTE>>>>) = key

\* this_key.read_string().unwrap() == key
KeyMatches(this_key, key) == this_key = key

RECURSIVE KeyLoop(_, _)
\* The while loop of get_key_value.
KeyLoop(contents, key) ==
    IF contents = <<>>
    THEN Err("Key not found")
    ELSE LET k == Unwrap(parse(contents)) IN
      IF k.tag # "Ok" THEN Panic
      ELSE LET c1 == SkipSeparator(contents, k.len)
               this_key == Unwrap(read_string(k.value))
           IN
        IF c1.tag # "Ok" \/ this_key.tag # "Ok" THEN Panic
        ELSE IF KeyMatches(this_key.value, key)
        THEN ParseValue(c1.value)
        ELSE LET v == Unwrap(parse(c1.value)) IN
          IF v.tag # "Ok" THEN Panic
          ELSE LET c2 == SkipSeparator(c1.value, v.len) IN
            IF c2.tag # "Ok" THEN Panic
            ELSE KeyLoop(c2.value, key)

\* JSONValue::get_key_value
get_key_value(self, key) ==
    IF self.value_type # "Object"
    THEN Err("Cannot parse value as an object")
    ELSE IF self.contents = <<>>
    THEN Panic
    ELSE KeyLoop(Drop(self.contents, 1), key)

\* ------------------------------------------------------------ inputs

\* Bounds of the input families.
MaxRawLen == 3

MaxStrBody == 3

MaxDigits == 2

MaxItems == 2

MaxIndex == MaxItems + 1

\* All sequences over S of length at most n.
SeqsUpTo(S, n) == UNION {[1..k -> S] : k \in 0..n}

RawAlphabet == {"[", "]", "{", "}", ",", ":", QUOTE, "1", " "}

StrAlphabet == {QUOTE, BACKSLASH, "a"}

DigitAlphabet == {"0", "1", "9"}

NumberSuffixes == {<<>>, <<".", "5">>, <<"e", "1">>, <<"E", "1">>}

LiteralWords == {<<"t", "r", "u", "e">>, <<"f", "a", "l", "s", "e">>, <<"n", "u", "l", "l">>}

\* Each literal, and each literal with one character after the first replaced.
LiteralTexts ==
    LiteralWords \cup
    {[w EXCEPT ![j] = "x"] : <<w, j>> \in {<<w, j>> \in LiteralWords \X (2..5) : j <= Len(w)}}

LiteralTails == {<<>>, <<" ">>, <<",">>, <<"e">>, <<"]", " ", " ", " ">>}

\* Complete JSON values used as elements, each with the kind it has.
Elements ==
    { [text |-> <<"1">>, kind |-> "Number"],
      [text |-> <<QUOTE, ",", BACKSLASH, QUOTE, "}", "]", QUOTE>>, kind |-> "String"],
      [text |-> <<"[", "2", ",", "[", "]", "]">>, kind |-> "Array"],
      [text |-> <<"{", QUOTE, "a", QUOTE, ":", "{", "}", "}">>, kind |-> "Object"],
      [text |-> <<"n", "u", "l", "l">>, kind |-> "Null"] }

\* The raw texts of object keys: a plain one and one holding an escaped quote.
KeyTexts == {<<"a">>, <<BACKSLASH, QUOTE>>}

\* The keys looked up: every key text and one that no object holds.
QueryKeys == KeyTexts \cup {<<"b">>}

\* Whitespace layouts of a document: before it, before each key or element,
\* before ':', after ':', after each value, and the text after the document.
Layouts ==
    { [lead |-> <<>>, pre |-> <<>>, mid1 |-> <<>>, mid2 |-> <<>>, post |-> <<>>,
       trail |-> <<>>],
      [lead |-> <<" ">>, pre |-> <<" ">>, mid1 |-> <<" ">>, mid2 |-> <<" ">>,
       post |-> <<" ">>, trail |-> <<" ">>],
      [lead |-> <<"\n", "\t">>, pre |-> <<"\r">>, mid1 |-> <<>>, mid2 |-> <<"\t", " ">>,
       post |-> <<"\n">>, trail |-> <<",", "1">>],
      [lead |-> <<>>, pre |-> <<>>, mid1 |-> <<"\n">>, mid2 |-> <<>>,
       post |-> <<" ", "\r">>, trail |-> <<"\t", "]">>] }

\* How a composite ends: its closer, its closer after a trailing ',', or the
\* end of the input after a ',' or after the last value (or the opener).
Endings == {"closed", "comma_closed", "comma", "cut"}

\* An item of a composite: an element, under a key in an object.
Items(keys) == {[key |-> k, text |-> e.text, kind |-> e.kind] : k \in keys, e \in Elements}

RenderItem(item, lay, is_object) ==
    IF is_object
    THEN Concat(<<lay.pre, <<QUOTE>>, item.key, <<QUOTE>>, lay.mid1, <<":">>, lay.mid2,
                  item.text, lay.post>>)
    ELSE Concat(<<lay.pre, item.text, lay.post>>)

RECURSIVE RenderItems(_, _, _)
RenderItems(items, lay, is_object) ==
    IF items = <<>> THEN <<>>
    ELSE IF Len(items) = 1 THEN RenderItem(items[1], lay, is_object)
    ELSE Concat(<<RenderItem(items[1], lay, is_object), <<",">>,
                  RenderItems(Tail(items), lay, is_object)>>)

\* The text of a composite from its opener to its ending.
RenderComposite(items, lay, ending, is_object) ==
    LET opener == IF is_object THEN <<"{">> ELSE <<"[">>
        closer == IF is_object THEN <<"}">> ELSE <<"]">>
        inner == IF items = <<>> THEN lay.pre ELSE RenderItems(items, lay, is_object)
        tail == CASE ending = "closed" -> closer
                  [] ending = "comma_closed" -> <<",">> \o closer
                  [] ending = "comma" -> <<",">>
                  [] ending = "cut" -> <<>>
    IN Concat(<<opener, inner, tail>>)

\* A document: the input text and what is known of it by construction.
\*   family  how the text was built
\*   text    the input handed to parse
\*   lead    the number of whitespace characters before the value
\*   core    the text of the value, without what surrounds it
\*   kind    the kind of the value
\*   items   the items of a composite, in order
\*   ending  how a composite ends ("none" for the other families)
Doc(family, text, lead, core, kind, items, ending) ==
    [family |-> family, text |-> text, lead |-> lead, core |-> core, kind |-> kind,
     items |-> items, ending |-> ending]

RawDocs ==
    {Doc("raw", t, 0, <<>>, "none", <<>>, "none") : t \in SeqsUpTo(RawAlphabet, MaxRawLen)}

StringDocs ==
    {Doc("string", <<QUOTE>> \o b, 0, <<>>, "String", <<>>, "none") :
        b \in SeqsUpTo(StrAlphabet, MaxStrBody)}

LiteralDocs ==
    {Doc("literal", Concat(<<ld, Take(w, k), tl>>), Len(ld), <<>>, "none", <<>>, "none") :
        <<ld, w, k, tl>> \in
            {q \in {<<>>, <<" ">>} \X LiteralTexts \X (1..5) \X LiteralTails :
                q[3] <= Len(q[2])}}

NumberDocs ==
    {Doc("number", Concat(<<sign, d, sfx>>), 0, Concat(<<sign, d, sfx>>), "Number",
         <<>>, "none") :
        <<sign, d, sfx>> \in
            {<<>>, <<"-">>} \X (SeqsUpTo(DigitAlphabet, MaxDigits) \ {<<>>}) \X NumberSuffixes}

ScalarDocs ==
    {Doc("scalar", Concat(<<lay.lead, e.text, lay.trail>>), Len(lay.lead), e.text, e.kind,
         <<>>, "none") : lay \in Layouts, e \in Elements}

CompositeDoc(items, lay, ending, is_object) ==
    LET core == RenderComposite(items, lay, ending, is_object)
        trail == IF ending \in {"closed", "comma_closed"} THEN lay.trail ELSE <<>>
    IN Doc(IF is_object THEN "object" ELSE "array",
           Concat(<<lay.lead, core, trail>>), Len(lay.lead), core,
           IF is_object THEN "Object" ELSE "Array", items, ending)

ArrayDocs ==
    {CompositeDoc(items, lay, ending, FALSE) :
        items \in SeqsUpTo(Items({<<>>}), MaxItems), lay \in Layouts, ending \in Endings}

ObjectDocs ==
    {CompositeDoc(items, lay, ending, TRUE) :
        items \in SeqsUpTo(Items(KeyTexts), MaxItems), lay \in Layouts, ending \in Endings}

Docs ==
    RawDocs \cup StringDocs \cup LiteralDocs \cup NumberDocs \cup ScalarDocs
        \cup ArrayDocs \cup ObjectDocs

\* ------------------------------------------------------------ the state machine

None == [tag |-> "None"]

Init ==
    /\ doc \in Docs
    /\ input = doc.text
    /\ pc = "start"
    /\ parsed = None
    /\ op = "none"
    /\ arg = <<>>
    /\ result = None

\* A caller parses the input.
Parse ==
    /\ pc = "start"
    /\ parsed' = parse(input)
    /\ pc' = "parsed"
    /\ UNCHANGED <<input, doc, op, arg, result>>

\* A caller applies one accessor to the Value parse returned.
Access(name, a, r) ==
    /\ pc = "parsed"
    /\ parsed.tag = "Ok"
    /\ op' = name
    /\ arg' = a
    /\ result' = r
    /\ pc' = "done"
    /\ UNCHANGED <<input, doc, parsed>>

ReadInteger == Access("read_integer", <<>>, read_integer(parsed.value))

ReadFloat == Access("read_float", <<>>, read_float(parsed.value))

ReadString == Access("read_string", <<>>, read_string(parsed.value))

GetNthArrayItem(n) == Access("get_nth_array_item", n, get_nth_array_item(parsed.value, n))

GetKeyValue(key) == Access("get_key_value", key, get_key_value(parsed.value, key))

Next ==
    \/ Parse
    \/ ReadInteger
    \/ ReadFloat
    \/ ReadString
    \/ \E n \in 0..MaxIndex : GetNthArrayItem(n)
    \/ \E key \in QueryKeys : GetKeyValue(key)

Spec == Init /\ [][Next]_vars

\* ------------------------------------------------------------ claims

\* The number of leading whitespace characters of s, counted position by position.
WsPrefix(s) ==
    Cardinality({i \in 1..Len(s) : \A j \in 1..i : s[j] \in {" ", "\t", "\n", "\r"}})

\* The document is a complete JSON value by construction: its core, kind and
\* leading whitespace are known without parsing it.
DocComplete ==
    \/ doc.family \in {"scalar", "number"}
    \/ doc.family \in {"array", "object"} /\ doc.ending = "closed"

\* C1: whenever parse returns Ok((v, n)) and w is the number of leading
\* whitespace characters of the input, n = w + len(v.contents) and v.contents =
\* input[w..n], so input[n..] is the unconsumed remainder; for a complete value
\* built with whitespace before it, between its tokens and after it, v.contents
\* is exactly the value's text (inner whitespace counted, the whitespace after
\* it not) and v has the value's kind.
C1_ConsumedLength ==
    /\ (pc # "start" /\ parsed.tag = "Ok") =>
          LET w == WsPrefix(input)
              n == parsed.len
          IN /\ n = w + Len(parsed.value.contents)
             /\ n <= Len(input)
             /\ parsed.value.contents = SubSeq(input, w + 1, n)
             /\ input = Concat(<<Take(input, w), parsed.value.contents, Drop(input, n)>>)
    /\ (pc # "start" /\ DocComplete) =>
          parsed = Parsed(doc.core, doc.kind, doc.lead + Len(doc.core))

\* C1's case: an object of two members between leading whitespace and trailing
\* text, with whitespace between its tokens, has been parsed.
C1_Witness ==
    /\ pc = "parsed"
    /\ doc.family = "object" /\ doc.ending = "closed"
    /\ Len(doc.items) = 2 /\ doc.lead = 2
    /\ parsed.tag = "Ok"
    /\ parsed.len = 2 + Len(doc.core)
    /\ parsed.len < Len(input)
    /\ \E i \in 2..Len(parsed.value.contents) : IsWhitespace(parsed.value.contents[i])

RECURSIVE CloserScan(_, _, _, _, _)
\* The index of the delimiter that brings the nesting depth of s back to zero,
\* counting '{' '[' up and '}' ']' down outside strings only; 0 when none does.
CloserScan(s, i, depth, in_string, escaped) ==
    IF i > Len(s) THEN 0
    ELSE IF in_string
    THEN IF s[i] = QUOTE /\ ~escaped THEN CloserScan(s, i + 1, depth, FALSE, FALSE)
         ELSE CloserScan(s, i + 1, depth, TRUE, s[i] = BACKSLASH /\ ~escaped)
    ELSE IF s[i] = QUOTE THEN CloserScan(s, i + 1, depth, TRUE, FALSE)
    ELSE IF s[i] \in {"{", "["} THEN CloserScan(s, i + 1, depth + 1, FALSE, FALSE)
    ELSE IF s[i] \in {"}", "]"}
    THEN IF depth = 1 THEN i ELSE CloserScan(s, i + 1, depth - 1, FALSE, FALSE)
    ELSE CloserScan(s, i + 1, depth, FALSE, FALSE)

\* C2 (as claimed): an Object (Array) that parse returns begins with '{' ('[')
\* and ends with the matching '}' (']') at the same depth, brackets inside
\* strings not counted; and when the input ends before the closing delimiter
\* (after the opener, after a value or after a ','), parse returns the
\* end-of-stream error.
C2_Original ==
    /\ (pc # "start" /\ parsed.tag = "Ok"
            /\ parsed.value.value_type \in {"Object", "Array"}) =>
          LET c == parsed.value.contents
              is_object == parsed.value.value_type = "Object"
          IN /\ c[1] = (IF is_object THEN "{" ELSE "[")
             /\ c[Len(c)] = (IF is_object THEN "}" ELSE "]")
             /\ CloserScan(c, 1, 0, FALSE, FALSE) = Len(c)
    /\ (pc # "start" /\ doc.family \in {"array", "object"}
            /\ doc.ending \in {"comma", "cut"}) =>
          parsed = Err(IF doc.family = "object"
                       THEN "End of stream while parsing object"
                       ELSE "End of stream while parsing array")

\* The number of consecutive backslashes of s that end right before index i.
BackslashRun(s, i) ==
    Cardinality({k \in 1..(i - 1) : \A j \in k..(i - 1) : s[j] = BACKSLASH})

\* C3 (as claimed): a String that parse returns begins with '"' and ends with a
\* separate terminating '"' that follows an even number of backslashes, every
\* earlier '"' inside follows an odd number; and read_string returns contents
\* without its first and last character.
C3_Original ==
    /\ (pc # "start" /\ parsed.tag = "Ok" /\ parsed.value.value_type = "String") =>
          LET c == parsed.value.contents
          IN /\ Len(c) >= 2
             /\ c[1] = QUOTE
             /\ c[Len(c)] = QUOTE
             /\ BackslashRun(c, Len(c)) % 2 = 0
             /\ \A i \in 2..(Len(c) - 1) : c[i] = QUOTE => BackslashRun(c, i) % 2 = 1
    /\ (pc = "done" /\ op = "read_string" /\ parsed.value.value_type = "String") =>
          result = Ok(SubSeq(parsed.value.contents, 2, Len(parsed.value.contents) - 1))

\* The indices of the items of the document whose key is key.
KeyIndices(key) == {i \in 1..Len(doc.items) : doc.items[i].key = key}

\* The least element of a non-empty set of numbers.
Least(S) == CHOOSE i \in S : \A j \in S : i <= j

\* C4: on an Object that parse returned, get_key_value(k) for a key k equal to
\* the raw text of one of its keys returns Ok of the Value (same kind, same
\* span) paired with the first such key, whatever the whitespace around keys,
\* ':' and ',' and whatever the kinds of the values before it.
C4_KeyFound ==
    (pc = "done" /\ op = "get_key_value" /\ doc.family = "object"
        /\ KeyIndices(arg) # {}) =>
       LET item == doc.items[Least(KeyIndices(arg))]
       IN result = Ok(JSONValue(item.text, item.kind))

\* C4's case: the key is the second one of an object laid out with whitespace,
\* after a member whose value is a nested object, and its value was returned.
C4_Witness ==
    /\ pc = "done" /\ op = "get_key_value" /\ doc.family = "object"
    /\ doc.lead = 2
    /\ Len(doc.items) = 2
    /\ doc.items[1].key # arg /\ doc.items[1].kind = "Object"
    /\ doc.items[2].key = arg /\ doc.items[2].kind = "String"
    /\ result = Ok(JSONValue(doc.items[2].text, "String"))

\* C5: on an Array of k elements that parse returned, get_nth_array_item(n) for
\* 0 <= n < k returns Ok of the Value (same kind, same span) of the n-th
\* element, whatever the whitespace between elements and separators and
\* whatever the kinds of the elements.
C5_NthItem ==
    (pc = "done" /\ op = "get_nth_array_item" /\ doc.family = "array"
        /\ arg < Len(doc.items)) =>
       result = Ok(JSONValue(doc.items[arg + 1].text, doc.items[arg + 1].kind))

\* C5's case: the second element of an array laid out with whitespace, after a
\* nested array, was returned.
C5_Witness ==
    /\ pc = "done" /\ op = "get_nth_array_item" /\ doc.family = "array"
    /\ doc.lead = 2
    /\ Len(doc.items) = 2 /\ arg = 1
    /\ doc.items[1].kind = "Array" /\ doc.items[2].kind = "Object"
    /\ result = Ok(JSONValue(doc.items[2].text, "Object"))

RECURSIVE Pow10(_)
Pow10(k) == IF k = 0 THEN 1 ELSE 10 * Pow10(k - 1)

RECURSIVE DecimalValue(_)
\* The number a sequence of digits denotes: the sum of digit * 10^place.
DecimalValue(digits) ==
    IF digits = <<>> THEN 0
    ELSE ToDigit(Head(digits)) * Pow10(Len(digits) - 1) + DecimalValue(Tail(digits))

\* C6 (as claimed): read_integer on a Number whose contents is an optional '-'
\* and one or more digits returns Ok of the digits' decimal value, negated
\* under a leading '-'; on a Number holding '.', 'e' or 'E' it returns the
\* number-format error.
C6_Original ==
    (pc = "done" /\ op = "read_integer" /\ parsed.value.value_type = "Number") =>
       LET c == parsed.value.contents
           neg == Len(c) > 0 /\ c[1] = "-"
           digits == IF neg THEN Tail(c) ELSE c
       IN /\ (digits # <<>> /\ \A i \in 1..Len(digits) : IsDigit(digits[i])) =>
                result = Ok(IF neg THEN -DecimalValue(digits) ELSE DecimalValue(digits))
          /\ (\E i \in 1..Len(c) : c[i] \in {".", "e", "E"}) =>
                result = Err("Cannot parse value as integer")

\* C7 (as claimed): on an Object that parse returned (the empty object and
\* objects with whitespace before '}' included), get_key_value(k) for a key k
\* equal to none of its keys returns the key-not-found error as a result value.
\* Stated of the objects that end with their '}', so that no violation rests
\* on an object whose input ended early.
C7_Original ==
    (pc = "done" /\ op = "get_key_value" /\ doc.family = "object"
        /\ doc.ending = "closed" /\ KeyIndices(arg) = {}) =>
       result = Err("Key not found")

\* C8 (as claimed): on an Array of k elements that parse returned (the empty
\* array included), get_nth_array_item(n) for n >= k returns an error result:
\* never a Value, never an abort.  Stated of the arrays that end with their
\* ']', so that no violation rests on an array whose input ended early.
C8_Original ==
    (pc = "done" /\ op = "get_nth_array_item" /\ doc.family = "array"
        /\ doc.ending = "closed" /\ arg >= Len(doc.items)) =>
       result.tag = "Err"

\* C9: every accessor applied to a Value of an incompatible kind returns its
\* type-mismatch error: read_integer and read_float off Number, read_string off
\* String, get_nth_array_item off Array, get_key_value off Object.
C9_TypeMismatch ==
    pc = "done" =>
       LET kind == parsed.value.value_type
       IN /\ (op = "read_integer" /\ kind # "Number") =>
                result = Err("Cannot parse value as integer")
          /\ (op = "read_float" /\ kind # "Number") =>
                result = Err("Cannot parse value as float")
          /\ (op = "read_string" /\ kind # "String") =>
                result = Err("Cannot parse value as string")
          /\ (op = "get_nth_array_item" /\ kind # "Array") =>
                result = Err("Cannot parse value as an array")
          /\ (op = "get_key_value" /\ kind # "Object") =>
                result = Err("Cannot parse value as an object")

\* C9's case: read_string was applied to an Array of two elements and failed.
C9_Witness ==
    /\ pc = "done" /\ op = "read_string"
    /\ parsed.value.value_type = "Array"
    /\ doc.family = "array" /\ Len(doc.items) = 2
    /\ result = Err("Cannot parse value as string")

\* C10 (as claimed): on an input whose first non-whitespace character is 't',
\* 'f' or 'n', parse returns the Bool or Null whose contents is the literal
\* when the text from there begins with 'true', 'false' or 'null', and the
\* unrecognised-literal error otherwise, inputs shorter than the literal
\* included.
C10_Original ==
    LET w == WsPrefix(input)
        rest == Drop(input, w)
    IN (pc # "start" /\ rest # <<>> /\ rest[1] \in {"t", "f", "n"}) =>
          LET word == CHOOSE x \in LiteralWords : x[1] = rest[1]
              kind == IF rest[1] = "n" THEN "Null" ELSE "Bool"
          IN IF Len(rest) >= Len(word) /\ Take(rest, Len(word)) = word
             THEN parsed = Parsed(word, kind, w + Len(word))
             ELSE parsed = Err("Unrecognised token")

====
